---- MODULE Spec2Model ----
(***************************************************************************)
(* Victron VRM sensor platform: the polling coordinators                   *)
(* (VrmDataCoordinator) and the sensors that read their last-known         *)
(* snapshot.                                                               *)
(*                                                                         *)
(* JSON / Python values are tagged records, one field set per type, so     *)
(* that values of different types can be compared:                         *)
(*   None / null  [t |-> "null"]                                           *)
(*   bool         [t |-> "bool", b |-> TRUE]                               *)
(*   number       [t |-> "num",  n |-> 15]      n counts hundredths (0.15) *)
(*   string       [t |-> "str",  s |-> "n/a"]                              *)
(*   list         [t |-> "list", items |-> <<...>>]                        *)
(*   dict         [t |-> "obj",  m |-> [key |-> value]]                    *)
(***************************************************************************)
EXTENDS Integers, Sequences, FiniteSets, TLC

VARIABLES
    data,          \* data[c]: coordinator.data, the last-known snapshot
    pc,            \* pc[c]: "idle", or "fetching" while the GET is in flight
    gets,          \* gets[c]: GETs issued since c's latest refresh began
    last_poll,     \* the poll that completed last: coordinator, response, outcome
    sensor_value,  \* sensor_value[s]: native_value as last evaluated
    call,          \* the function evaluated last: its name, arguments, result
    entries,       \* the config entries of the domain; entry_id is the index
    hass_data,     \* hass.data
    flow,          \* what the last config-flow or entry operation returned
    setup          \* progress of the sensor platform's async_setup_entry

vars == <<data, pc, gets, last_poll, sensor_value, call, entries, hass_data, flow, setup>>
pollVars == <<data, pc, gets, last_poll, sensor_value>>

----------------------------------------------------------------------------
(* Bounds of the model *)

\* valueFloat readings, in hundredths: voltages k * VoltageStep for
\* 1 <= k <= MaxMag, currents k * CurrentStep for |k| <= MaxMag
MaxMag == 1
VoltageStep == 13
CurrentStep == 29

Voltages == {k * VoltageStep : k \in 1..MaxMag}
Currents == {k * CurrentStep : k \in (0 - MaxMag)..MaxMag}

----------------------------------------------------------------------------
(* JSON values *)

None == [t |-> "null"]
Bool(b) == [t |-> "bool", b |-> b]
Num(n) == [t |-> "num", n |-> n]
Str(s) == [t |-> "str", s |-> s]
List(items) == [t |-> "list", items |-> items]
Obj(m) == [t |-> "obj", m |-> m]

EmptyMap == [k \in {} |-> None]
EmptyDict == Obj(EmptyMap)

\* Python truthiness, as tested by `if not self.coordinator.data`
Truthy(x) ==
    CASE x.t = "null" -> FALSE
      [] x.t = "bool" -> x.b
      [] x.t = "num"  -> x.n # 0
      [] x.t = "str"  -> x.s # ""
      [] x.t = "list" -> Len(x.items) > 0
      [] x.t = "obj"  -> DOMAIN x.m # {}

\* `key in x` is defined for containers only; on None, numbers and booleans
\* it raises TypeError.  The strings of this model never properly contain a
\* key, so substring search is equality.
SupportsIn(x) == x.t \in {"obj", "list", "str"}

Contains(key, x) ==
    CASE x.t = "obj"  -> key \in DOMAIN x.m
      [] x.t = "list" -> \E i \in 1..Len(x.items) : x.items[i] = Str(key)
      [] x.t = "str"  -> x.s = key
      [] OTHER        -> FALSE

\* An outcome of a call: a returned value or a raised exception
Return(v) == [kind |-> "return", value |-> v, exc |-> "none"]
Raise(e) == [kind |-> "raise", value |-> None, exc |-> e]

----------------------------------------------------------------------------
(* HTTP exchange of one poll *)

\* What comes back for the GET: an HTTP response (status, whether the body
\* parses as JSON, the parsed body), a connection error or a timeout
HttpResponse(status, json_ok, body) ==
    [kind |-> "http", status |-> status, json_ok |-> json_ok, body |-> body]
ConnectionFailure ==
    [kind |-> "client_error", status |-> 0, json_ok |-> FALSE, body |-> None]
RequestTimeout ==
    [kind |-> "timeout", status |-> 0, json_ok |-> FALSE, body |-> None]
NoResponse ==
    [kind |-> "none", status |-> 0, json_ok |-> FALSE, body |-> None]

\* Status codes the API answers with in this model
Statuses == {200, 201, 204, 404}

----------------------------------------------------------------------------
(* VrmDataCoordinator._async_update_data *)

\* The shape normalisation of a parsed 200 body (the three `in` tests and
\* the fallback), with the TypeError Python raises when `in` is applied to
\* a value that is not a container or a list is indexed by a string
Normalize(body) ==
    IF ~SupportsIn(body) THEN Raise("TypeError")
    ELSE IF Contains("totals", body) THEN Return(body)
    ELSE IF Contains("records", body)
         THEN IF body.t # "obj" THEN Raise("TypeError")
              ELSE IF ~SupportsIn(body.m["records"]) THEN Raise("TypeError")
              ELSE IF Contains("devices", body.m["records"])
                   THEN Return(body.m["records"])
                   ELSE Return(body.m["records"])
    ELSE Return(body)

\* Variant: every 2xx status is let through to the JSON parsing
TryBodyAny2xx(r) ==
    CASE r.kind = "client_error" -> Raise("ClientError")
      [] r.kind = "timeout"      -> Raise("TimeoutError")
      [] OTHER ->
           IF r.status \notin 200..299 THEN Raise("UpdateFailed")
           ELSE IF r.status = 204 THEN Return(None)
           ELSE IF ~r.json_ok THEN Raise("JSONDecodeError")
           ELSE Normalize(r.body)

\* The body of the try block
TryBody(r) ==
    CASE r.kind = "client_error" -> Raise("ClientError")
      [] r.kind = "timeout"      -> Raise("TimeoutError")
      [] OTHER ->
           IF r.status \notin {200, 204} THEN Raise("UpdateFailed")
           ELSE IF r.status = 204 THEN Return(None)
           ELSE IF ~r.json_ok THEN Raise("JSONDecodeError")
           ELSE Normalize(r.body)

\* Variant: errors are swallowed and reported as "no data"
_async_update_data_swallow(r) ==
    IF TryBody(r).kind = "raise" THEN Return(None) ELSE TryBody(r)

\* Variant: without the catch-all `except Exception` clause
_async_update_data_no_catchall(r) ==
    IF TryBody(r).kind = "raise" /\ TryBody(r).exc = "ClientError"
    THEN Raise("UpdateFailed")
    ELSE TryBody(r)

\* The two except clauses: aiohttp.ClientError, then Exception; both raise
\* UpdateFailed (UpdateFailed raised inside the try is caught by the second)
_async_update_data(r) ==
    IF TryBody(r).kind = "raise"
    THEN IF TryBody(r).exc = "ClientError"
         THEN Raise("UpdateFailed")
         ELSE Raise("UpdateFailed")
    ELSE TryBody(r)

\* Variant: the new payload is merged into the previous snapshot
RECURSIVE MergeInto(_, _)
MergeInto(old, new) ==
    IF old.t = "obj" /\ new.t = "obj"
    THEN Obj([k \in DOMAIN old.m \cup DOMAIN new.m |->
                 IF k \notin DOMAIN new.m THEN old.m[k]
                 ELSE IF k \notin DOMAIN old.m THEN new.m[k]
                 ELSE MergeInto(old.m[k], new.m[k])])
    ELSE new

RefreshedMerging(old, outcome) ==
    IF outcome.kind = "return" THEN MergeInto(old, outcome.value) ELSE old

\* Variant: an answer without data leaves the previous snapshot in place
RefreshedKeeping(old, outcome) ==
    IF outcome.kind = "return" /\ outcome.value # None THEN outcome.value ELSE old

\* DataUpdateCoordinator, which VrmDataCoordinator extends: a returned value
\* replaces coordinator.data, a raised exception leaves it as it was
Refreshed(old, outcome) ==
    IF outcome.kind = "return" THEN outcome.value ELSE old

----------------------------------------------------------------------------
(* Derived power sensors *)

\* round(x, 2) of a product of two readings: p counts 1/10000, the result
\* counts hundredths; nearest, ties to even, symmetric about zero
Round2(p) ==
    LET a == IF p < 0 THEN 0 - p ELSE p
        q == a \div 100
        r == a % 100
        m == IF r > 50 \/ (r = 50 /\ q % 2 = 1) THEN q + 1 ELSE q
    IN  IF p < 0 THEN 0 - m ELSE m

\* dict.get(key, default); the caller has checked that d is a dict
DictGet(d, key, default) ==
    IF key \in DOMAIN d.m THEN d.m[key] ELSE default

\* Operands Python multiplies as numbers (bool is an int) and then rounds;
\* any other pair ends in TypeError, inside the try
IsNumber(x) == x.t \in {"num", "bool"}
AsHundredths(x) == IF x.t = "num" THEN x.n ELSE IF x.b THEN 100 ELSE 0

\* Variant: the readings are added instead of multiplied
PowerNativeValueSum(snapshot, voltage_id, current_id) ==
    IF ~Truthy(snapshot) THEN Return(Num(0))
    ELSE IF snapshot.t # "obj" THEN Raise("AttributeError")
    ELSE LET d == DictGet(snapshot, "data", EmptyDict) IN
         IF d.t # "obj" THEN Raise("AttributeError")
         ELSE LET va == DictGet(d, voltage_id, EmptyDict)
                  ca == DictGet(d, current_id, EmptyDict) IN
              IF va.t # "obj" \/ ca.t # "obj" THEN Raise("AttributeError")
              ELSE LET voltage == DictGet(va, "valueFloat", None)
                       current == DictGet(ca, "valueFloat", None) IN
                   IF voltage = None \/ current = None THEN Return(Num(0))
                   ELSE IF IsNumber(voltage) /\ IsNumber(current)
                        THEN Return(Num(AsHundredths(voltage) + AsHundredths(current)))
                        ELSE Return(Num(0))

\* native_value of VrmBatteryPowerSensor and VrmMultiPlusDCPowerSensor, which
\* differ in the two attribute IDs only.  `.get` on a value that is not a
\* dict raises AttributeError, outside the try; the try covers the product
\* and its rounding.
PowerNativeValue(snapshot, voltage_id, current_id) ==
    IF ~Truthy(snapshot) THEN Return(Num(0))
    ELSE IF snapshot.t # "obj" THEN Raise("AttributeError")
    ELSE LET d == DictGet(snapshot, "data", EmptyDict) IN
         IF d.t # "obj" THEN Raise("AttributeError")
         ELSE LET va == DictGet(d, voltage_id, EmptyDict)
                  ca == DictGet(d, current_id, EmptyDict) IN
              IF va.t # "obj" \/ ca.t # "obj" THEN Raise("AttributeError")
              ELSE LET voltage == DictGet(va, "valueFloat", None)
                       current == DictGet(ca, "valueFloat", None) IN
                   IF voltage = None \/ current = None THEN Return(Num(0))
                   ELSE IF IsNumber(voltage) /\ IsNumber(current)
                        THEN Return(Num(Round2(AsHundredths(voltage) * AsHundredths(current))))
                        ELSE Return(Num(0))

\* The coordinators and the derived sensor that reads each of them
Coordinators == {"battery", "multi"}
Sensors == {"battery_power", "multi_dc_power"}

SensorCoordinator(s) == IF s = "battery_power" THEN "battery" ELSE "multi"
VOLTAGE_DATA_ID(s) == IF s = "battery_power" THEN "47" ELSE "32"
CURRENT_DATA_ID(s) == IF s = "battery_power" THEN "49" ELSE "33"

native_value(s, snapshot) ==
    PowerNativeValue(snapshot, VOLTAGE_DATA_ID(s), CURRENT_DATA_ID(s))

----------------------------------------------------------------------------
(* Payloads the API answers with *)

ValueFloat(x) == Obj("valueFloat" :> x)

\* A widget answer: {"success": true, "records": {"data": {id: attribute}}}
Widget(attrs) ==
    Obj(("success" :> Bool(TRUE)) @@ ("records" :> Obj("data" :> Obj(attrs))))

\* The maps in which attribute `id` is absent, present without valueFloat,
\* or present with one of the readings
AttributeMaps(id, readings) ==
    {EmptyMap, id :> EmptyDict} \cup {id :> ValueFloat(Num(v)) : v \in readings}

\* BatterySummary: attribute 47 is the voltage, 49 the current
BatteryBodies ==
    {Widget(v @@ c) : v \in AttributeMaps("47", Voltages),
                      c \in AttributeMaps("49", Currents)}

Totals == Obj("totals" :> Obj("Pc" :> Num(VoltageStep)))
Devices == Obj("devices" :> List(<<Obj("instance" :> Num(0))>>))

\* Status widget of the MultiPlus (32 voltage, 33 current), and the other
\* shapes an endpoint can answer with
MultiBodies ==
    { Widget(("32" :> ValueFloat(Num(VoltageStep))) @@ ("33" :> ValueFloat(Num(0 - CurrentStep)))),
      Widget(("32" :> ValueFloat(None)) @@ ("33" :> ValueFloat(Num(CurrentStep)))),
      Widget(("32" :> ValueFloat(Str("n/a"))) @@ ("33" :> ValueFloat(Num(CurrentStep)))),
      Widget(("32" :> None) @@ ("33" :> ValueFloat(Num(CurrentStep)))),
      Obj("records" :> Obj("data" :> List(<<>>))),
      Totals,
      Obj(Totals.m @@ ("records" :> Devices)),
      Obj("records" :> Devices),
      Obj("records" :> List(<<>>)),
      Obj("records" :> None),
      Obj("success" :> Bool(TRUE)),
      List(<<>>) }

\* The body that comes with a status other than 200
StatusBody == Obj("success" :> Bool(FALSE))

Bodies(c) == IF c = "battery" THEN BatteryBodies ELSE MultiBodies

----------------------------------------------------------------------------
(* The state machine *)

Unread == Raise("unread")

\* The coordinators as constructed: no snapshot, no request, nothing read
PollInit ==
    /\ data = [c \in Coordinators |-> None]
    /\ pc = [c \in Coordinators |-> "idle"]
    /\ gets = [c \in Coordinators |-> 0]
    /\ last_poll = [coord |-> "none", resp |-> NoResponse, outcome |-> Return(None)]
    /\ sensor_value = [s \in Sensors |-> Unread]

\* Nothing evaluated, no config entry, nothing stored, setup not begun
NoCall == [fn |-> "none", done |-> FALSE]
NoFlow == [type |-> "none"]
NoSetup == [phase |-> "none"]

CallInit == call = NoCall
EntryInit ==
    /\ entries = <<>>
    /\ hass_data = EmptyMap
    /\ flow = NoFlow
SetupInit == setup = NoSetup

Init == PollInit /\ CallInit /\ EntryInit /\ SetupInit

\* The coordinator's timer fires: the refresh calls _async_update_data, which
\* issues its one session.get
ScheduledRefresh(c) ==
    /\ pc[c] = "idle"
    /\ pc' = [pc EXCEPT ![c] = "fetching"]
    /\ gets' = [gets EXCEPT ![c] = 1]
    /\ UNCHANGED <<data, last_poll, sensor_value>>

\* Variant: a failed GET is retried at once
CompleteRetrying(c, r) ==
    /\ pc[c] = "fetching"
    /\ IF _async_update_data(r).kind = "raise" /\ gets[c] < 2
       THEN /\ gets' = [gets EXCEPT ![c] = gets[c] + 1]
            /\ UNCHANGED <<data, pc, last_poll, sensor_value>>
       ELSE /\ data' = [data EXCEPT ![c] = Refreshed(data[c], _async_update_data(r))]
            /\ pc' = [pc EXCEPT ![c] = "idle"]
            /\ last_poll' = [coord |-> c, resp |-> r, outcome |-> _async_update_data(r)]
            /\ sensor_value' = [s \in Sensors |->
                                  IF SensorCoordinator(s) = c
                                  THEN native_value(s, data'[c])
                                  ELSE sensor_value[s]]
            /\ UNCHANGED gets

\* Variant: all coordinators share one snapshot
CompleteShared(c, r) ==
    /\ pc[c] = "fetching"
    /\ data' = [d \in Coordinators |-> Refreshed(data[c], _async_update_data(r))]
    /\ pc' = [pc EXCEPT ![c] = "idle"]
    /\ last_poll' = [coord |-> c, resp |-> r, outcome |-> _async_update_data(r)]
    /\ sensor_value' = [s \in Sensors |->
                          IF SensorCoordinator(s) = c
                          THEN native_value(s, data'[c])
                          ELSE sensor_value[s]]
    /\ UNCHANGED gets

\* The GET of coordinator c ends with r: _async_update_data returns or
\* raises, the refresh stores the result, and the listeners (the sensors of
\* this coordinator) evaluate native_value on the snapshot
Complete(c, r) ==
    /\ pc[c] = "fetching"
    /\ data' = [data EXCEPT ![c] = Refreshed(data[c], _async_update_data(r))]
    /\ pc' = [pc EXCEPT ![c] = "idle"]
    /\ last_poll' = [coord |-> c, resp |-> r, outcome |-> _async_update_data(r)]
    /\ sensor_value' = [s \in Sensors |->
                          IF SensorCoordinator(s) = c
                          THEN native_value(s, data'[c])
                          ELSE sensor_value[s]]
    /\ UNCHANGED gets

\* The API answers 200 with a JSON body
HttpReply(c) ==
    \E body \in Bodies(c) : Complete(c, HttpResponse(200, TRUE, body))

\* The API answers with another status; its body, valid JSON, is not read
HttpStatusReply(c) ==
    \E status \in Statuses \ {200} : Complete(c, HttpResponse(status, TRUE, StatusBody))

\* The API answers 200 with a body that is not JSON
MalformedReply(c) == Complete(c, HttpResponse(200, FALSE, None))

\* The connection fails (aiohttp.ClientError)
NetworkError(c) == Complete(c, ConnectionFailure)

\* Nothing arrives within the 15 s timeout
Timeout(c) == Complete(c, RequestTimeout)

Next ==
    /\ \E c \in Coordinators :
          \/ ScheduledRefresh(c)
          \/ HttpReply(c)
          \/ HttpStatusReply(c)
          \/ MalformedReply(c)
          \/ NetworkError(c)
          \/ Timeout(c)
    /\ UNCHANGED <<call, entries, hass_data, flow, setup>>

Spec == Init /\ [][Next]_vars

----------------------------------------------------------------------------
(* Vocabulary of the properties *)

\* The step in which the poll of coordinator c ends
Completed(c) == pc[c] = "fetching" /\ pc'[c] = "idle"

\* Some poll has ended; last_poll describes it
Polled == last_poll.coord \in Coordinators

IsHttp(r) == r.kind = "http"
ValidJson200(r) == IsHttp(r) /\ r.status = 200 /\ r.json_ok
MalformedJson(r) == IsHttp(r) /\ r.status = 200 /\ ~r.json_ok
NetworkFailure(r) == r.kind \in {"client_error", "timeout"}

\* The normalisation as the specification words it
HasKey(x, key) == x.t = "obj" /\ key \in DOMAIN x.m
NormalizedPayload(body) ==
    IF HasKey(body, "totals") THEN body
    ELSE IF HasKey(body, "records") THEN body.m["records"]
    ELSE body

----------------------------------------------------------------------------
(* C1: a poll that ends in failure (a status other than 200/204, a network *)
(* error, malformed JSON, or any raised exception) leaves the coordinator's *)
(* snapshot as it was before the poll.                                      *)

PollFailure(r) ==
    \/ IsHttp(r) /\ r.status \notin {200, 204}
    \/ NetworkFailure(r)
    \/ MalformedJson(r)

C1_FailureRetainsSnapshot ==
    [][\A c \in Coordinators :
         (Completed(c) /\ (PollFailure(last_poll'.resp) \/ last_poll'.outcome.kind = "raise"))
            => data'[c] = data[c]]_vars

\* A failed poll has ended and a snapshot of an earlier poll is still there
C1_Witness ==
    /\ Polled
    /\ PollFailure(last_poll.resp)
    /\ data[last_poll.coord] # None

----------------------------------------------------------------------------
(* C2: a poll that ends in a non-2xx status, an aiohttp client error or a   *)
(* JSON decoding failure makes _async_update_data raise UpdateFailed and    *)
(* return nothing; whatever it raises, it raises UpdateFailed.              *)

NamedFailure(r) ==
    \/ IsHttp(r) /\ r.status \notin 200..299
    \/ r.kind = "client_error"
    \/ MalformedJson(r)

C2_SurfacedAsUpdateFailed ==
    Polled =>
       /\ NamedFailure(last_poll.resp) => last_poll.outcome = Raise("UpdateFailed")
       /\ last_poll.outcome.kind = "raise" => last_poll.outcome.exc = "UpdateFailed"

\* A 200 answer that is not JSON has been turned into UpdateFailed
C2_Witness ==
    /\ Polled
    /\ MalformedJson(last_poll.resp)
    /\ last_poll.outcome = Raise("UpdateFailed")

----------------------------------------------------------------------------
(* C3 as stated: an answer with a status in 200..299 whose body is sound   *)
(* is never turned into "update failed".                                    *)

SoundBody(r) ==
    /\ r.json_ok
    /\ r.body.t = "obj"
    /\ HasKey(r.body, "records") /\ ~HasKey(r.body, "totals")
          => r.body.m["records"].t \in {"obj", "list"}

C3_Original ==
    (Polled /\ IsHttp(last_poll.resp) /\ last_poll.resp.status \in 200..299
            /\ SoundBody(last_poll.resp))
       => last_poll.outcome.kind = "return"

(* C3 amended: 200 and 204 are the only statuses that are not an error;    *)
(* every other status, the other 2xx codes included, is turned into        *)
(* "update failed", and a 200 or 204 answer is never failed on account of  *)
(* its status.                                                              *)
C3_Only200And204 ==
    (Polled /\ IsHttp(last_poll.resp)) =>
       /\ last_poll.resp.status \notin {200, 204}
             => last_poll.outcome = Raise("UpdateFailed")
       /\ last_poll.resp.status = 204
             => last_poll.outcome = Return(None)
       /\ (last_poll.resp.status = 200 /\ SoundBody(last_poll.resp))
             => last_poll.outcome.kind = "return"

\* A 2xx answer other than 200 and 204 has been turned into UpdateFailed
C3_Witness ==
    /\ Polled
    /\ IsHttp(last_poll.resp)
    /\ last_poll.resp.status \in 200..299
    /\ last_poll.resp.status \notin {200, 204}
    /\ last_poll.outcome = Raise("UpdateFailed")

----------------------------------------------------------------------------
(* C4: when the API answers 200 with valid JSON, the coordinator's         *)
(* snapshot is replaced by the normalized payload of that answer, however  *)
(* many polls failed before it.                                            *)

C4_Original ==
    (Polled /\ ValidJson200(last_poll.resp))
       => data[last_poll.coord] = NormalizedPayload(last_poll.resp.body)

----------------------------------------------------------------------------
(* C5: no retry.  A GET is issued for a coordinator only by the step that  *)
(* begins a scheduled refresh, and it is the only GET of that refresh; in  *)
(* particular the step that ends a poll, failed or not, issues none.       *)

GetIssued(c) == gets'[c] # gets[c] \/ (pc'[c] = "fetching" /\ pc[c] # "fetching")

C5_NoRetry ==
    [][\A c \in Coordinators :
         /\ gets'[c] <= 1
         /\ GetIssued(c) => (pc[c] = "idle" /\ gets'[c] = 1)
         /\ Completed(c) => ~GetIssued(c)]_vars

\* A poll has failed, its coordinator is idle again and has issued one GET
C5_Witness ==
    /\ Polled
    /\ last_poll.outcome.kind = "raise"
    /\ pc[last_poll.coord] = "idle"
    /\ gets[last_poll.coord] = 1

----------------------------------------------------------------------------
(* C6: coordinators are independent.  The step that ends a poll of one     *)
(* coordinator leaves the snapshot, the position and the sensor readings   *)
(* of every other coordinator unchanged, and its own new snapshot is       *)
(* either its previous snapshot or the normalized payload of its answer.   *)

C6_Independent ==
    [][\A c \in Coordinators :
         Completed(c) =>
            /\ \A d \in Coordinators \ {c} :
                  /\ data'[d] = data[d]
                  /\ pc'[d] = pc[d]
                  /\ gets'[d] = gets[d]
            /\ \A s \in Sensors :
                  SensorCoordinator(s) # c => sensor_value'[s] = sensor_value[s]
            /\ data'[c] \in {data[c], None, NormalizedPayload(last_poll'.resp.body)}]_vars

\* A poll of one coordinator has ended while the other holds a snapshot
C6_Witness ==
    /\ Polled
    /\ \E d \in Coordinators \ {last_poll.coord} : data[d] # None
    /\ data[last_poll.coord] # None

----------------------------------------------------------------------------
(* C7: after a successful poll with status 200 the snapshot is the         *)
(* normalized payload of that answer alone: nothing of the previous        *)
(* snapshot is kept.                                                       *)

C7_Replacement ==
    (Polled /\ ValidJson200(last_poll.resp) /\ last_poll.outcome.kind = "return")
       => data[last_poll.coord] = NormalizedPayload(last_poll.resp.body)

\* A successful poll has left a widget snapshot without the voltage
\* attribute, which other answers of the same endpoint carry
C7_Witness ==
    /\ Polled
    /\ last_poll.coord = "battery"
    /\ ValidJson200(last_poll.resp)
    /\ last_poll.outcome.kind = "return"
    /\ "47" \notin DOMAIN data["battery"].m["data"].m
    /\ "49" \in DOMAIN data["battery"].m["data"].m

----------------------------------------------------------------------------
(* C8: shape normalization of a 200 answer: with a top-level "totals" key  *)
(* the whole payload is returned, otherwise with a top-level "records" key *)
(* the value of "records", otherwise the payload unchanged.                *)

C8_Original ==
    (Polled /\ ValidJson200(last_poll.resp))
       => last_poll.outcome = Return(NormalizedPayload(last_poll.resp.body))

----------------------------------------------------------------------------
(* C9: when the snapshot holds a numeric valueFloat for the voltage ID and *)
(* for the current ID, the power sensor returns voltage * current rounded  *)
(* to 2 decimals (a nearest multiple of 0.01), with the sign of the        *)
(* product.                                                                *)

\* The attribute object of `id` in a widget snapshot, when there is one
HasAttribute(snapshot, id) ==
    /\ HasKey(snapshot, "data")
    /\ HasKey(snapshot.m["data"], id)
AttributeOf(snapshot, id) == snapshot.m["data"].m[id]

HasReading(snapshot, id) ==
    /\ HasAttribute(snapshot, id)
    /\ HasKey(AttributeOf(snapshot, id), "valueFloat")
    /\ AttributeOf(snapshot, id).m["valueFloat"].t = "num"
ReadingOf(snapshot, id) == AttributeOf(snapshot, id).m["valueFloat"].n

Abs(x) == IF x < 0 THEN 0 - x ELSE x

\* Sensor s has been evaluated on the current snapshot of its coordinator
Evaluated(s) == sensor_value[s] # Unread

C9_PowerIsVoltageTimesCurrent ==
    \A s \in Sensors :
       LET snapshot == data[SensorCoordinator(s)]
       IN  (Evaluated(s) /\ HasReading(snapshot, VOLTAGE_DATA_ID(s))
                         /\ HasReading(snapshot, CURRENT_DATA_ID(s)))
           => LET product == ReadingOf(snapshot, VOLTAGE_DATA_ID(s))
                               * ReadingOf(snapshot, CURRENT_DATA_ID(s))
              IN  /\ sensor_value[s].kind = "return"
                  /\ sensor_value[s].value.t = "num"
                  /\ Abs(100 * sensor_value[s].value.n - product) <= 50
                  /\ product >= 0 => sensor_value[s].value.n >= 0
                  /\ product <= 0 => sensor_value[s].value.n <= 0

\* Both sensors report a negative power that needed rounding
C9_Witness ==
    \A s \in Sensors :
       /\ HasReading(data[SensorCoordinator(s)], VOLTAGE_DATA_ID(s))
       /\ HasReading(data[SensorCoordinator(s)], CURRENT_DATA_ID(s))
       /\ sensor_value[s].kind = "return"
       /\ sensor_value[s].value.t = "num"
       /\ sensor_value[s].value.n < 0
       /\ 100 * sensor_value[s].value.n
             # ReadingOf(data[SensorCoordinator(s)], VOLTAGE_DATA_ID(s))
                 * ReadingOf(data[SensorCoordinator(s)], CURRENT_DATA_ID(s))

----------------------------------------------------------------------------
(* C10: the power sensors return 0.0, neither None nor an exception,       *)
(* whenever the snapshot is empty, the voltage attribute is absent, the    *)
(* current attribute is absent, or either has no valueFloat.               *)

NoValueFloat(snapshot, id) ==
    /\ HasAttribute(snapshot, id)
    /\ \/ ~HasKey(AttributeOf(snapshot, id), "valueFloat")
       \/ AttributeOf(snapshot, id).m["valueFloat"] = None

MissingField(snapshot, s) ==
    \/ ~Truthy(snapshot)
    \/ ~HasAttribute(snapshot, VOLTAGE_DATA_ID(s))
    \/ ~HasAttribute(snapshot, CURRENT_DATA_ID(s))
    \/ NoValueFloat(snapshot, VOLTAGE_DATA_ID(s))
    \/ NoValueFloat(snapshot, CURRENT_DATA_ID(s))

C10_Original ==
    \A s \in Sensors :
       (Evaluated(s) /\ MissingField(data[SensorCoordinator(s)], s))
          => sensor_value[s] = Return(Num(0))

----------------------------------------------------------------------------
(* Sensors that read one snapshot or several: the functions *)

\* native_value of VrmBatterySummarySensor: the chain of `.get` calls raises
\* AttributeError at the first value that is not a dict
SummaryNativeValue(snapshot, data_id) ==
    IF ~Truthy(snapshot) THEN Return(None)
    ELSE IF snapshot.t # "obj" THEN Raise("AttributeError")
    ELSE LET d == DictGet(snapshot, "data", EmptyDict) IN
         IF d.t # "obj" THEN Raise("AttributeError")
         ELSE LET attr == DictGet(d, data_id, EmptyDict) IN
              IF attr.t # "obj" THEN Raise("AttributeError")
              ELSE Return(DictGet(attr, "valueFloat", None))

\* What the coordinator keeps of a widget answer: its "records"
Snapshot(attrs) == Obj("data" :> Obj(attrs))

\* The widget answers with no attribute at all: no "data", an empty
\* mapping, and the empty list that stands for it in some answers
NoAttributes == {EmptyDict, Snapshot(EmptyMap), Obj("data" :> List(<<>>))}

\* Snapshots of a BatterySummary coordinator
SummarySnapshots ==
    {None} \cup NoAttributes
    \cup {Snapshot(v @@ c) : v \in AttributeMaps("47", Voltages),
                             c \in AttributeMaps("49", Currents)}
    \cup {Snapshot("47" :> ValueFloat(None)), Snapshot("47" :> None)}

SummaryDataIds == {"47", "49", "51"}

\* Reading the state of the sensor evaluates native_value
Pending(fn) == call.fn = fn /\ ~call.done

\* coordinator.data.get("data", {}).get(id, {}).get("valueFloat") on a
\* snapshot that is not empty
ValueFloatOf(snapshot, id) ==
    IF snapshot.t # "obj" THEN Raise("AttributeError")
    ELSE LET d == DictGet(snapshot, "data", EmptyDict) IN
         IF d.t # "obj" THEN Raise("AttributeError")
         ELSE LET attr == DictGet(d, id, EmptyDict) IN
              IF attr.t # "obj" THEN Raise("AttributeError")
              ELSE Return(DictGet(attr, "valueFloat", None))

\* The running state of a loop over coordinators: the exception that ended
\* it ("" while there is none), the total in 1/10000, and has_data
LoopStart == [exc |-> "", total |-> 0, has_data |-> FALSE]

\* voltage * current of one coordinator added to the total, when both
\* readings are there; the product of operands that are no numbers and its
\* addition to a float end in TypeError
AddProduct(acc, snapshot, voltage_id, current_id) ==
    IF acc.exc # "" \/ ~Truthy(snapshot) THEN acc
    ELSE LET voltage == ValueFloatOf(snapshot, voltage_id)
             current == ValueFloatOf(snapshot, current_id) IN
         IF voltage.kind = "raise" THEN [acc EXCEPT !.exc = voltage.exc]
         ELSE IF current.kind = "raise" THEN [acc EXCEPT !.exc = current.exc]
         ELSE IF voltage.value = None \/ current.value = None THEN acc
         ELSE IF ~(IsNumber(voltage.value) /\ IsNumber(current.value))
              THEN [acc EXCEPT !.exc = "TypeError"]
              ELSE [acc EXCEPT !.has_data = TRUE,
                               !.total = @ + AsHundredths(voltage.value)
                                             * AsHundredths(current.value)]

\* The loop of VrmBatteriesTotalPowerSensor.native_value over the first n
\* coordinators
RECURSIVE BatteriesLoop(_, _)
BatteriesLoop(snapshots, n) ==
    IF n = 0 THEN LoopStart
    ELSE AddProduct(BatteriesLoop(snapshots, n - 1), snapshots[n], "47", "49")

\* native_value of VrmBatteriesTotalPowerSensor
BatteriesTotalNativeValue(snapshots) ==
    LET acc == BatteriesLoop(snapshots, Len(snapshots)) IN
    IF acc.exc # "" THEN Raise(acc.exc)
    ELSE IF ~acc.has_data THEN Return(Num(0))
    ELSE Return(Num(Round2(acc.total)))

\* At most MaxBatteries battery instances are configured
MaxBatteries == 2

\* Snapshots of the BatterySummary coordinators the total is taken over
TotalSnapshots ==
    {None, Obj("data" :> List(<<>>)), Snapshot(EmptyMap),
     Snapshot("47" :> ValueFloat(Num(VoltageStep))),
     Snapshot(("47" :> ValueFloat(None)) @@ ("49" :> ValueFloat(Num(CurrentStep))))}
    \cup {Snapshot(("47" :> ValueFloat(Num(v))) @@ ("49" :> ValueFloat(Num(c)))) :
             v \in Voltages, c \in Currents}

BatteriesTotalCalls ==
    {[fn |-> "VrmBatteriesTotalPowerSensor", snapshots |-> snapshots,
      done |-> FALSE, result |-> Unread] :
        snapshots \in UNION {[1..n -> TotalSnapshots] : n \in 1..MaxBatteries}}

EvalBatteriesTotal ==
    /\ Pending("VrmBatteriesTotalPowerSensor")
    /\ call' = [call EXCEPT !.done = TRUE,
                            !.result = BatteriesTotalNativeValue(call.snapshots)]

\* The valueFloat of one attribute added to the total, when it is there;
\* the total counts 1/10000, the reading hundredths
AddReading(acc, snapshot, id) ==
    IF acc.exc # "" \/ ~Truthy(snapshot) THEN acc
    ELSE LET val == ValueFloatOf(snapshot, id) IN
         IF val.kind = "raise" THEN [acc EXCEPT !.exc = val.exc]
         ELSE IF val.value = None THEN acc
         ELSE IF ~IsNumber(val.value) THEN [acc EXCEPT !.exc = "TypeError"]
         ELSE [acc EXCEPT !.total = @ + 100 * AsHundredths(val.value)]

\* The loops of VrmDcLoadsSensor.native_value, each over the first n
\* coordinators of its list and each begun where the one before ended
RECURSIVE SolarLoop(_, _, _)
SolarLoop(acc, snapshots, n) ==
    IF n = 0 THEN acc
    ELSE AddReading(SolarLoop(acc, snapshots, n - 1), snapshots[n], "107")

RECURSIVE PvLoop(_, _, _)
PvLoop(acc, snapshots, n) ==
    IF n = 0 THEN acc
    ELSE AddReading(AddReading(AddReading(PvLoop(acc, snapshots, n - 1),
                                          snapshots[n], "205"),
                               snapshots[n], "209"),
                    snapshots[n], "213")

RECURSIVE ProductLoop(_, _, _, _, _)
ProductLoop(acc, snapshots, n, voltage_id, current_id) ==
    IF n = 0 THEN acc
    ELSE AddProduct(ProductLoop(acc, snapshots, n - 1, voltage_id, current_id),
                    snapshots[n], voltage_id, current_id)

\* native_value of VrmDcLoadsSensor
DcLoadsNativeValue(sc, pv, batt, multi) ==
    LET produced == PvLoop(SolarLoop(LoopStart, sc, Len(sc)), pv, Len(pv))
        total_batt == ProductLoop([LoopStart EXCEPT !.exc = produced.exc],
                                  batt, Len(batt), "47", "49")
        total_multi == ProductLoop([LoopStart EXCEPT !.exc = total_batt.exc],
                                   multi, Len(multi), "32", "33")
    IN  IF total_multi.exc # "" THEN Raise(total_multi.exc)
        ELSE Return(Num(Round2(produced.total - total_batt.total - total_multi.total)))

\* The coordinators of the DC loads sensor: at most one solar charger, PV
\* inverter and MultiPlus, and one to MaxBatteries batteries
SolarSnapshots ==
    {None, Obj("data" :> List(<<>>)), Snapshot(EmptyMap), Snapshot("107" :> EmptyDict)}
    \cup {Snapshot("107" :> ValueFloat(Num(v))) : v \in Voltages}
PvSnapshots ==
    {None, Snapshot("205" :> ValueFloat(Num(CurrentStep))),
     Snapshot(("205" :> ValueFloat(Num(VoltageStep)))
              @@ ("209" :> ValueFloat(Num(1)))
              @@ ("213" :> ValueFloat(Num(CurrentStep))))}
DcBatterySnapshots ==
    {None} \cup {Snapshot(("47" :> ValueFloat(Num(VoltageStep)))
                          @@ ("49" :> ValueFloat(Num(c)))) :
                    c \in {CurrentStep, 0 - CurrentStep}}
DcMultiSnapshots ==
    {None, Snapshot("32" :> ValueFloat(Num(VoltageStep))),
     Snapshot(("32" :> ValueFloat(Num(VoltageStep))) @@ ("33" :> ValueFloat(Num(CurrentStep))))}

UpToOne(snapshots) == {<<>>} \cup {<<x>> : x \in snapshots}

DcLoadsCalls ==
    {[fn |-> "VrmDcLoadsSensor", sc |-> sc, pv |-> pv, batt |-> batt,
      multi |-> multi, done |-> FALSE, result |-> Unread] :
        sc \in UpToOne(SolarSnapshots), pv \in UpToOne(PvSnapshots),
        batt \in UNION {[1..n -> DcBatterySnapshots] : n \in 1..MaxBatteries},
        multi \in UpToOne(DcMultiSnapshots)}

EvalDcLoads ==
    /\ Pending("VrmDcLoadsSensor")
    /\ call' = [call EXCEPT !.done = TRUE,
                            !.result = DcLoadsNativeValue(call.sc, call.pv,
                                                          call.batt, call.multi)]

\* A JSON integer; Num counts hundredths
Integer(i) == Num(100 * i)

\* a == b of Python, where a bool is the integer 1 or 0
PyEq(a, b) ==
    IF IsNumber(a) /\ IsNumber(b) THEN AsHundredths(a) = AsHundredths(b)
    ELSE a = b

\* float(x): of a number the number, of a string the number it spells or
\* ValueError, of anything else TypeError
NumberSpelled(str) ==
    CASE str = "0.29"  -> [ok |-> TRUE, n |-> 29]
      [] str = "-0.13" -> [ok |-> TRUE, n |-> 0 - 13]
      [] OTHER         -> [ok |-> FALSE, n |-> 0]
float(x) ==
    IF IsNumber(x) THEN [ok |-> TRUE, n |-> AsHundredths(x)]
    ELSE IF x.t = "str" THEN NumberSpelled(x.s)
    ELSE [ok |-> FALSE, n |-> 0]

\* The least element of a set of indices that is not empty
Least(S) == CHOOSE i \in S : \A j \in S : i <= j

\* The value a diagnostics sensor makes of the record it has found
RecordValue(target_record, device_class, state_class) ==
    IF ~Truthy(target_record) THEN Return(None)
    ELSE IF device_class = None /\ state_class = None
         THEN Return(DictGet(target_record, "formattedValue", None))
         ELSE LET val == DictGet(target_record, "rawValue", None) IN
              IF float(val).ok THEN Return(Num(float(val).n)) ELSE Return(val)

\* The loop of VrmDiagnosticsSensor.native_value passes over record i
PassedOver(item, data_id, instance_id) ==
    /\ item.t = "obj"
    /\ \/ instance_id # None /\ ~PyEq(DictGet(item, "instance", None), instance_id)
       \/ ~PyEq(DictGet(item, "idDataAttribute", None), data_id)

\* Variant: the last record that matches is taken, not the first
DiagnosticsNativeValueLast(snapshot, data_id, instance_id, device_class, state_class) ==
    IF ~Truthy(snapshot) THEN Return(None)
    ELSE IF snapshot.t # "list" THEN Return(None)
    ELSE LET records == snapshot.items
             stops == {i \in 1..Len(records) :
                          ~PassedOver(records[i], data_id, instance_id)}
         IN  IF stops = {} THEN Return(None)
             ELSE LET i == CHOOSE k \in stops : \A j \in stops : j <= k IN
                  IF records[i].t # "obj" THEN Raise("AttributeError")
                  ELSE RecordValue(records[i], device_class, state_class)

\* native_value of VrmDiagnosticsSensor; data_id is int(data_id) already.
\* The loop ends at the first record it does not pass over: one that
\* matches, or one that is no dict, on which `.get` raises.
DiagnosticsNativeValue(snapshot, data_id, instance_id, device_class, state_class) ==
    IF ~Truthy(snapshot) THEN Return(None)
    ELSE IF snapshot.t # "list" THEN Return(None)
    ELSE LET records == snapshot.items
             stops == {i \in 1..Len(records) :
                          ~PassedOver(records[i], data_id, instance_id)}
         IN  IF stops = {} THEN Return(None)
             ELSE LET i == Least(stops) IN
                  IF records[i].t # "obj" THEN Raise("AttributeError")
                  ELSE RecordValue(records[i], device_class, state_class)

\* The phases of the grid meter: L1_POWER_ID, L2_POWER_ID, L3_POWER_ID
L1_POWER_ID == 379
L2_POWER_ID == 380
L3_POWER_ID == 381

GridStart == [exc |-> "", l1 |-> 0, l2 |-> 0, l3 |-> 0, has_data |-> FALSE]

\* Variant: the records of every instance are taken
GridStepAnyInstance(acc, item, grid_instance_id) ==
    IF acc.exc # "" THEN acc
    ELSE IF item.t # "obj" THEN [acc EXCEPT !.exc = "AttributeError"]
    ELSE LET attr_id == DictGet(item, "idDataAttribute", None)
             val == float(DictGet(item, "rawValue", None))
         IN  IF ~\E id \in {L1_POWER_ID, L2_POWER_ID, L3_POWER_ID} :
                     PyEq(attr_id, Integer(id))
             THEN acc
             ELSE IF ~val.ok THEN acc
             ELSE [acc EXCEPT
                     !.l1 = IF PyEq(attr_id, Integer(L1_POWER_ID)) THEN val.n ELSE @,
                     !.l2 = IF PyEq(attr_id, Integer(L2_POWER_ID)) THEN val.n ELSE @,
                     !.l3 = IF PyEq(attr_id, Integer(L3_POWER_ID)) THEN val.n ELSE @,
                     !.has_data = TRUE]

\* One turn of the loop of VrmGridTotalPowerSensor.native_value
GridStep(acc, item, grid_instance_id) ==
    IF acc.exc # "" THEN acc
    ELSE IF item.t # "obj" THEN [acc EXCEPT !.exc = "AttributeError"]
    ELSE IF ~PyEq(DictGet(item, "instance", None), grid_instance_id) THEN acc
    ELSE LET attr_id == DictGet(item, "idDataAttribute", None)
             val == float(DictGet(item, "rawValue", None))
         IN  IF ~\E id \in {L1_POWER_ID, L2_POWER_ID, L3_POWER_ID} :
                     PyEq(attr_id, Integer(id))
             THEN acc
             ELSE IF ~val.ok THEN acc
             ELSE [acc EXCEPT
                     !.l1 = IF PyEq(attr_id, Integer(L1_POWER_ID)) THEN val.n ELSE @,
                     !.l2 = IF PyEq(attr_id, Integer(L2_POWER_ID)) THEN val.n ELSE @,
                     !.l3 = IF PyEq(attr_id, Integer(L3_POWER_ID)) THEN val.n ELSE @,
                     !.has_data = TRUE]

RECURSIVE GridLoop(_, _, _)
GridLoop(records, n, grid_instance_id) ==
    IF n = 0 THEN GridStart
    ELSE GridStep(GridLoop(records, n - 1, grid_instance_id), records[n],
                  grid_instance_id)

\* native_value of VrmGridTotalPowerSensor
GridTotalNativeValue(snapshot, grid_instance_id) ==
    IF ~Truthy(snapshot) THEN Return(Num(0))
    ELSE IF snapshot.t # "list" THEN Return(Num(0))
    ELSE LET acc == GridLoop(snapshot.items, Len(snapshot.items), grid_instance_id) IN
         IF acc.exc # "" THEN Raise(acc.exc)
         ELSE IF ~acc.has_data THEN Return(Num(0))
         ELSE Return(Num(Round2(100 * (acc.l1 + acc.l2 + acc.l3))))

\* Diagnostics snapshots: lists of at most MaxRecords records
MaxRecords == 2

\* The grid meter of the sensors, and another one
GridInstance == 30
OtherInstance == GridInstance + 1

RawValues == {Num(CurrentStep), Str("-0.13"), Str("n/a")}
Formatted(raw) == IF raw.t = "str" THEN raw ELSE Str("0.29 W")

DiagnosticsRecord(instance, id, raw) ==
    Obj(("instance" :> Integer(instance)) @@ ("idDataAttribute" :> Integer(id))
        @@ ("rawValue" :> raw) @@ ("formattedValue" :> Formatted(raw)))

DiagnosticsRecords ==
    {DiagnosticsRecord(instance, id, raw) :
        instance \in {GridInstance, OtherInstance},
        id \in {L1_POWER_ID, L2_POWER_ID}, raw \in RawValues}
    \cup {Obj(("instance" :> Integer(GridInstance)) @@ ("idDataAttribute" :> Integer(L1_POWER_ID)))}

DiagnosticsSnapshots ==
    {None, Obj("success" :> Bool(TRUE))}
    \cup {List(records) : records \in UNION {[1..n -> DiagnosticsRecords] : n \in 0..MaxRecords}}

\* Device class and state class of a sensor: a text sensor has neither
SensorClasses ==
    {[device_class |-> None, state_class |-> None],
     [device_class |-> Str("power"), state_class |-> Str("measurement")],
     [device_class |-> None, state_class |-> Str("measurement")]}

DiagnosticsCalls ==
    {[fn |-> "VrmDiagnosticsSensor", snapshot |-> snapshot,
      data_id |-> Integer(L1_POWER_ID), instance_id |-> Integer(GridInstance),
      classes |-> classes, done |-> FALSE, result |-> Unread] :
        snapshot \in DiagnosticsSnapshots, classes \in SensorClasses}

GridTotalCalls ==
    {[fn |-> "VrmGridTotalPowerSensor", snapshot |-> snapshot,
      grid_instance_id |-> Integer(GridInstance), done |-> FALSE, result |-> Unread] :
        snapshot \in DiagnosticsSnapshots}

EvalDiagnostics ==
    /\ Pending("VrmDiagnosticsSensor")
    /\ call' = [call EXCEPT !.done = TRUE,
                            !.result = DiagnosticsNativeValue(call.snapshot,
                                  call.data_id, call.instance_id,
                                  call.classes.device_class, call.classes.state_class)]

EvalGridTotal ==
    /\ Pending("VrmGridTotalPowerSensor")
    /\ call' = [call EXCEPT !.done = TRUE,
                            !.result = GridTotalNativeValue(call.snapshot,
                                                            call.grid_instance_id)]

\* value[key] with a string key: the value of the key in a dict, KeyError
\* when the dict has no such key, TypeError on anything that is no dict
Subscript(outcome, key) ==
    IF outcome.kind = "raise" THEN outcome
    ELSE IF outcome.value.t # "obj" THEN Raise("TypeError")
    ELSE IF key \notin DOMAIN outcome.value.m THEN Raise("KeyError")
    ELSE Return(outcome.value.m[key])

\* The loop `for key in self._data_path: value = value[key]` over the
\* first n keys of the path
RECURSIVE FollowPath(_, _, _)
FollowPath(value, data_path, n) ==
    IF n = 0 THEN Return(value)
    ELSE Subscript(FollowPath(value, data_path, n - 1), data_path[n])

\* The body of the try of VrmOverallStatsSensor.native_value; a bool is an
\* instance of int and is returned as it is
OverallStatsTry(snapshot, data_path) ==
    LET found == FollowPath(snapshot, data_path, Len(data_path)) IN
    IF found.kind = "raise" THEN found
    ELSE IF IsNumber(found.value) THEN found
    ELSE IF found.value.t = "str"
         THEN IF float(found.value).ok THEN Return(Num(float(found.value).n))
              ELSE Raise("ValueError")
         ELSE Return(None)

\* Variant: a key that is missing gives None, as an empty snapshot does
OverallStatsNativeValueNone(snapshot, data_path) ==
    IF ~Truthy(snapshot) THEN Return(None)
    ELSE LET tried == OverallStatsTry(snapshot, data_path) IN
         IF tried.kind = "raise"
         THEN IF tried.exc \in {"TypeError", "ValueError"} THEN Return(Num(0))
              ELSE Return(None)
         ELSE tried

\* native_value of VrmOverallStatsSensor: KeyError, TypeError and
\* ValueError are caught and give 0.0
OverallStatsNativeValue(snapshot, data_path) ==
    IF ~Truthy(snapshot) THEN Return(None)
    ELSE LET tried == OverallStatsTry(snapshot, data_path) IN
         IF tried.kind = "raise"
         THEN IF tried.exc \in {"KeyError", "TypeError", "ValueError"}
              THEN Return(Num(0))
              ELSE tried
         ELSE tried

\* The values a statistic is found with, and what stands where the
\* "totals" of a period are expected
StatValues ==
    {Num(VoltageStep), Str("0.29"), Str("n/a"), Bool(FALSE), None,
     List(<<>>), EmptyDict}
TotalsValues ==
    {Obj("Pc" :> v) : v \in StatValues}
    \cup {Obj("Pb" :> Num(VoltageStep)), EmptyDict, List(<<>>), None, Str("n/a")}

\* Snapshots of the stats coordinator ("totals" at the top) and of the
\* overall stats coordinator (a period above it)
StatsSnapshots ==
    {None, EmptyDict, Obj("today" :> None), Obj("week" :> Obj("totals" :> Obj("Pc" :> Num(1))))}
    \cup {Obj("totals" :> t) : t \in TotalsValues}
    \cup {Obj("today" :> Obj("totals" :> t)) : t \in TotalsValues}

DataPaths == {<<"totals", "Pc">>, <<"today", "totals", "Pc">>}

OverallStatsCalls ==
    {[fn |-> "VrmOverallStatsSensor", snapshot |-> snapshot,
      data_path |-> data_path, done |-> FALSE, result |-> Unread] :
        snapshot \in StatsSnapshots, data_path \in DataPaths}

EvalOverallStats ==
    /\ Pending("VrmOverallStatsSensor")
    /\ call' = [call EXCEPT !.done = TRUE,
                            !.result = OverallStatsNativeValue(call.snapshot,
                                                               call.data_path)]

\* A sensor and the snapshots it is about to be read on
SummaryCalls ==
    {[fn |-> "VrmBatterySummarySensor", snapshot |-> snapshot,
      data_id |-> data_id, done |-> FALSE, result |-> Unread] :
        snapshot \in SummarySnapshots, data_id \in SummaryDataIds}

EvalBatterySummary ==
    /\ Pending("VrmBatterySummarySensor")
    /\ call' = [call EXCEPT !.done = TRUE,
                            !.result = SummaryNativeValue(call.snapshot, call.data_id)]

SensorInit ==
    /\ PollInit /\ EntryInit /\ SetupInit
    /\ \/ call \in SummaryCalls
       \/ call \in BatteriesTotalCalls
       \/ call \in DcLoadsCalls
       \/ call \in GridTotalCalls
       \/ call \in DiagnosticsCalls
       \/ call \in OverallStatsCalls

SensorNext ==
    /\ \/ EvalBatterySummary
       \/ EvalBatteriesTotal
       \/ EvalDcLoads
       \/ EvalGridTotal
       \/ EvalDiagnostics
       \/ EvalOverallStats
    /\ UNCHANGED <<pollVars, entries, hass_data, flow, setup>>

SensorSpec == SensorInit /\ [][SensorNext]_vars

----------------------------------------------------------------------------
(* C11: VrmBatterySummarySensor with attribute ID k returns                *)
(* snapshot["data"][k]["valueFloat"] when that path exists, and None when  *)
(* the snapshot is empty, k is absent or k has no valueFloat; no other     *)
(* attribute of the snapshot matters.                                      *)

Called(fn) == call.fn = fn /\ call.done

\* snapshot["data"][k]["valueFloat"] exists
HasValueFloat(snapshot, k) ==
    /\ HasAttribute(snapshot, k)
    /\ HasKey(AttributeOf(snapshot, k), "valueFloat")

\* The snapshot cut down to attribute k: what the result may depend on
OnlyAttribute(snapshot, k) ==
    IF HasAttribute(snapshot, k) THEN Snapshot(k :> AttributeOf(snapshot, k))
    ELSE IF Truthy(snapshot) THEN Snapshot(EmptyMap)
    ELSE snapshot

C11_Original ==
    Called("VrmBatterySummarySensor") =>
        /\ call.result =
              IF HasValueFloat(call.snapshot, call.data_id)
              THEN Return(AttributeOf(call.snapshot, call.data_id).m["valueFloat"])
              ELSE Return(None)
        /\ call.result =
              SummaryNativeValue(OnlyAttribute(call.snapshot, call.data_id), call.data_id)

----------------------------------------------------------------------------
(* C13: VrmBatteriesTotalPowerSensor returns the sum of voltage * current  *)
(* (IDs 47 and 49) over exactly the battery coordinators whose snapshot    *)
(* holds both values, rounded to 2 decimals; a coordinator with an empty   *)
(* snapshot or without one of the values is skipped and does not make the  *)
(* total undefined; the result is 0.0 when no coordinator contributes.     *)

Contributes(snapshot) == HasReading(snapshot, "47") /\ HasReading(snapshot, "49")

\* The sum of voltage * current, in 1/10000, over the contributing ones of
\* the first n snapshots
RECURSIVE ProductSum(_, _)
ProductSum(snapshots, n) ==
    IF n = 0 THEN 0
    ELSE ProductSum(snapshots, n - 1)
            + (IF Contributes(snapshots[n])
               THEN ReadingOf(snapshots[n], "47") * ReadingOf(snapshots[n], "49")
               ELSE 0)

\* x, in hundredths, is p, in 1/10000, rounded to 2 decimals
RoundedTo2(x, p) == Abs(100 * x - p) <= 50

C13_Original ==
    Called("VrmBatteriesTotalPowerSensor") =>
        LET snapshots == call.snapshots IN
        /\ call.result.kind = "return"
        /\ call.result.value.t = "num"
        /\ IF \E i \in 1..Len(snapshots) : Contributes(snapshots[i])
           THEN RoundedTo2(call.result.value.n, ProductSum(snapshots, Len(snapshots)))
           ELSE call.result.value.n = 0

----------------------------------------------------------------------------
(* C14: for every combination of snapshots VrmDcLoadsSensor returns        *)
(* (solar charger power, ID 107, plus PV inverter power, IDs 205, 209 and  *)
(* 213) minus the battery voltage * current minus the MultiPlus DC         *)
(* voltage * current (IDs 32, 33), each summed over its coordinators and   *)
(* the whole rounded to 2 decimals; a missing value or an empty snapshot   *)
(* counts as 0, and the result is always a number.                         *)

\* The sum of the readings `ids`, in hundredths, over the first n snapshots
RECURSIVE ReadingSum(_, _, _)
ReadingSum(snapshots, n, ids) ==
    IF n = 0 THEN 0
    ELSE LET here == {id \in ids : HasReading(snapshots[n], id)}
             RECURSIVE Sum(_)
             Sum(S) == IF S = {} THEN 0
                       ELSE LET id == CHOOSE x \in S : TRUE
                            IN  ReadingOf(snapshots[n], id) + Sum(S \ {id})
         IN  ReadingSum(snapshots, n - 1, ids) + Sum(here)

\* The sum of voltage * current, in 1/10000, over the first n snapshots
RECURSIVE PowerSum(_, _, _, _)
PowerSum(snapshots, n, voltage_id, current_id) ==
    IF n = 0 THEN 0
    ELSE PowerSum(snapshots, n - 1, voltage_id, current_id)
            + (IF HasReading(snapshots[n], voltage_id) /\ HasReading(snapshots[n], current_id)
               THEN ReadingOf(snapshots[n], voltage_id) * ReadingOf(snapshots[n], current_id)
               ELSE 0)

C14_Original ==
    Called("VrmDcLoadsSensor") =>
        /\ call.result.kind = "return"
        /\ call.result.value.t = "num"
        /\ RoundedTo2(call.result.value.n,
                      100 * ReadingSum(call.sc, Len(call.sc), {"107"})
                      + 100 * ReadingSum(call.pv, Len(call.pv), {"205", "209", "213"})
                      - PowerSum(call.batt, Len(call.batt), "47", "49")
                      - PowerSum(call.multi, Len(call.multi), "32", "33"))

----------------------------------------------------------------------------
(* C15: VrmGridTotalPowerSensor for grid instance g depends on the         *)
(* diagnostics records whose "instance" equals g and on nothing else: its  *)
(* value on a snapshot is its value on the records of g alone, in their    *)
(* order, so two snapshots that agree on those records give the same value *)
(* whatever records of other instances they hold.                          *)

OfInstance(record, g) == HasKey(record, "instance") /\ record.m["instance"] = g

\* The snapshot without the records of instances other than g
OnlyInstance(snapshot, g) ==
    IF snapshot.t # "list" THEN snapshot
    ELSE List(SelectSeq(snapshot.items, LAMBDA record : OfInstance(record, g)))

PowerRecord(record) ==
    /\ HasKey(record, "idDataAttribute")
    /\ record.m["idDataAttribute"] \in {Integer(L1_POWER_ID), Integer(L2_POWER_ID)}
    /\ HasKey(record, "rawValue")
    /\ float(record.m["rawValue"]).ok

----------------------------------------------------------------------------
(* C16: VrmDiagnosticsSensor with target instance i and attribute ID k     *)
(* returns the value of the first record, in list order, whose instance is *)
(* i and whose idDataAttribute is k: its formattedValue when the sensor    *)
(* has neither a device class nor a state class, otherwise its rawValue,   *)
(* converted to a number when it can be; it returns None when the snapshot *)
(* is empty, is no list, or holds no such record.                          *)

Matches(record, i, k) ==
    /\ OfInstance(record, i)
    /\ HasKey(record, "idDataAttribute") /\ record.m["idDataAttribute"] = k

\* The indices of the records of the snapshot that match
Matching(snapshot, i, k) ==
    IF snapshot.t # "list" THEN {}
    ELSE {n \in 1..Len(snapshot.items) : Matches(snapshot.items[n], i, k)}

FieldOf(record, key) == IF HasKey(record, key) THEN record.m[key] ELSE None

Converted(raw) == IF float(raw).ok THEN Num(float(raw).n) ELSE raw

----------------------------------------------------------------------------
(* The instance IDs of the configuration *)

\* Configuration strings: sequences of at most MaxLen characters
MaxLen == 3
Digit == {"0", "1", "2"}
Chars == Digit \cup {"-", "+", ",", " ", "x"}
Strings == UNION {[1..n -> Chars] : n \in 0..MaxLen}

DigitValue(ch) == CASE ch = "0" -> 0 [] ch = "1" -> 1 [] ch = "2" -> 2

\* The value of a sequence of decimal digits
RECURSIVE DecValue(_)
DecValue(digits) ==
    IF digits = <<>> THEN 0
    ELSE 10 * DecValue(SubSeq(digits, 1, Len(digits) - 1))
            + DigitValue(digits[Len(digits)])

\* str.split(","): the parts between the commas, empty ones included
RECURSIVE Split(_)
Split(str) ==
    IF \A i \in 1..Len(str) : str[i] # "," THEN <<str>>
    ELSE LET i == CHOOSE k \in 1..Len(str) :
                     str[k] = "," /\ \A j \in 1..(k - 1) : str[j] # ","
         IN  <<SubSeq(str, 1, i - 1)>> \o Split(SubSeq(str, i + 1, Len(str)))

\* str.strip(): leading and trailing blanks removed
RECURSIVE Strip(_)
Strip(str) ==
    IF str = <<>> THEN str
    ELSE IF str[1] = " " THEN Strip(Tail(str))
    ELSE IF str[Len(str)] = " " THEN Strip(SubSeq(str, 1, Len(str) - 1))
    ELSE str

\* int(str): an optional sign and at least one digit, or ValueError
ValueError == [ok |-> FALSE, n |-> 0]
int(str) ==
    LET signed == str # <<>> /\ str[1] \in {"-", "+"}
        digits == IF signed THEN Tail(str) ELSE str
    IN  IF digits = <<>> \/ \E i \in 1..Len(digits) : digits[i] \notin Digit
        THEN ValueError
        ELSE [ok |-> TRUE,
              n |-> IF signed /\ str[1] = "-" THEN 0 - DecValue(digits)
                    ELSE DecValue(digits)]

\* sorted(list(ids)): the elements of a set of integers in ascending order
RECURSIVE Sorted(_)
Sorted(ids) ==
    IF ids = {} THEN <<>>
    ELSE LET least == CHOOSE n \in ids : \A k \in ids : n <= k
         IN  <<least>> \o Sorted(ids \ {least})

\* The IDs a loop over the parts has added to the set `ids`
ParsedIds(parts) ==
    {int(Strip(parts[i])).n :
        i \in {k \in 1..Len(parts) :
                  int(Strip(parts[k])).ok /\ int(Strip(parts[k])).n >= 0}}

\* Variant: the IDs in the order of the configuration, not sorted
RECURSIVE InOrder(_)
InOrder(parts) ==
    IF parts = <<>> THEN <<>>
    ELSE LET v == int(Strip(parts[1]))
             rest == InOrder(Tail(parts))
         IN  IF v.ok /\ v.n >= 0 THEN <<v.n>> \o rest ELSE rest

_parse_instance_ids_unsorted(config_string) ==
    IF config_string = <<>> THEN <<>>
    ELSE InOrder(Split(config_string))

_parse_instance_ids(config_string) ==
    IF config_string = <<>> THEN <<>>
    ELSE Sorted(ParsedIds(Split(config_string)))

ParseCalls ==
    {[fn |-> "_parse_instance_ids", config_string |-> str,
      done |-> FALSE, result |-> <<>>] : str \in Strings}

ParseInstanceIds ==
    /\ Pending("_parse_instance_ids")
    /\ call' = [call EXCEPT !.done = TRUE,
                            !.result = _parse_instance_ids(call.config_string)]

ConfigInit ==
    /\ PollInit /\ EntryInit /\ SetupInit
    /\ \/ call \in ParseCalls

ConfigNext ==
    /\ \/ ParseInstanceIds
    /\ UNCHANGED <<pollVars, entries, hass_data, flow, setup>>

ConfigSpec == ConfigInit /\ [][ConfigNext]_vars

----------------------------------------------------------------------------
(* C12: for every configuration string _parse_instance_ids returns a       *)
(* strictly ascending list (hence without duplicates) of integers >= 0,    *)
(* holding exactly the non-negative integers that occur as a               *)
(* comma-separated part of the string once blanks around it are trimmed;   *)
(* parts that are no integer, and negative integers, are left out, and the *)
(* empty string gives the empty list.                                      *)

\* str[i..j] is a comma-separated part of str (empty when j = i - 1)
IsPart(str, i, j) ==
    /\ i = 1 \/ str[i - 1] = ","
    /\ j = Len(str) \/ str[j + 1] = ","
    /\ \A k \in i..j : str[k] # ","

\* str[a..b] is str[i..j] without the blanks around it
IsTrimmed(str, i, j, a, b) ==
    /\ i <= a /\ a <= b /\ b <= j
    /\ \A k \in (i..(a - 1)) \cup ((b + 1)..j) : str[k] = " "
    /\ str[a] # " " /\ str[b] # " "

\* A numeral: digits, or a sign and digits
IsNumeral(q) ==
    \/ q # <<>> /\ \A k \in 1..Len(q) : q[k] \in Digit
    \/ /\ Len(q) >= 2 /\ q[1] \in {"-", "+"}
       /\ \A k \in 2..Len(q) : q[k] \in Digit
NumeralValue(q) ==
    IF q[1] = "-" THEN 0 - DecValue(Tail(q))
    ELSE IF q[1] = "+" THEN DecValue(Tail(q))
    ELSE DecValue(q)

\* The integers that occur as a trimmed part of str
IntegerParts(str) ==
    {NumeralValue(SubSeq(str, w[3], w[4])) :
        w \in {v \in (1..(Len(str) + 1)) \X (0..Len(str)) \X (1..Len(str)) \X (1..Len(str)) :
                  /\ IsPart(str, v[1], v[2])
                  /\ IsTrimmed(str, v[1], v[2], v[3], v[4])
                  /\ IsNumeral(SubSeq(str, v[3], v[4]))}}

C12_ParsedIds ==
    Called("_parse_instance_ids") =>
        LET ids == call.result IN
        /\ \A i \in 1..Len(ids) : ids[i] >= 0
        /\ \A i \in 1..(Len(ids) - 1) : ids[i] < ids[i + 1]
        /\ {ids[i] : i \in 1..Len(ids)} = {n \in IntegerParts(call.config_string) : n >= 0}
        /\ call.config_string = <<>> => ids = <<>>

\* Parsed: a string whose parts are out of order and hold a duplicate, a
\* negative integer or something that is no integer
C12_Witness ==
    /\ Called("_parse_instance_ids")
    /\ Len(call.result) >= 1
    /\ \E i, j \in 1..Len(Split(call.config_string)) :
          /\ i < j
          /\ int(Strip(Split(call.config_string)[i])).ok
          /\ int(Strip(Split(call.config_string)[j])).ok
          /\ int(Strip(Split(call.config_string)[j])).n
                <= int(Strip(Split(call.config_string)[i])).n

----------------------------------------------------------------------------
(* Config flow and config entries *)

\* const.py: DOMAIN
Domain == "victron_vrm_api"

\* What the form can be submitted with: DATA_SCHEMA makes site_id and token
\* strings (the instance lists are left at their default "")
SiteIds == {"1001", "1002", "1003"}
Tokens == {"t1", "t2"}
UserInputs == [site_id : SiteIds, token : Tokens]

\* str() of a value that is a string already
str(x) == x

\* _abort_if_unique_id_configured: an entry of the domain has the unique ID
UniqueIdConfigured(unique_id) ==
    \E e \in 1..Len(entries) : entries[e].unique_id = unique_id

NewEntry(unique_id, user_input) ==
    [unique_id |-> unique_id, title |-> <<"Victron VRM Site", unique_id>>,
     data |-> user_input, state |-> "not_loaded"]

\* Variant: the entry is created without looking at the entries there are
async_step_user_no_abort(user_input) ==
    LET unique_id == str(user_input.site_id) IN
    /\ entries' = Append(entries, NewEntry(unique_id, user_input))
    /\ flow' = [type |-> "create_entry", user_input |-> user_input]
    /\ UNCHANGED hass_data

\* VictronVrmConfigFlow.async_step_user with a submitted form
async_step_user(user_input) ==
    LET unique_id == str(user_input.site_id) IN
    /\ IF UniqueIdConfigured(unique_id)
       THEN /\ flow' = [type |-> "abort", user_input |-> user_input]
            /\ UNCHANGED entries
       ELSE /\ entries' = Append(entries, NewEntry(unique_id, user_input))
            /\ flow' = [type |-> "create_entry", user_input |-> user_input]
    /\ UNCHANGED hass_data

\* async_step_user without input shows the form
ShowForm ==
    /\ flow' = [type |-> "form"]
    /\ UNCHANGED <<entries, hass_data>>

SubmitForm == \E user_input \in UserInputs : async_step_user(user_input)

\* hass.data.get(DOMAIN, {})
DomainData == IF Domain \in DOMAIN hass_data THEN hass_data[Domain] ELSE EmptyMap

\* __init__.async_setup_entry of an entry that is not loaded
async_setup_entry(e) ==
    /\ entries[e].state = "not_loaded"
    /\ hass_data' = (Domain :> ((e :> entries[e].data) @@ DomainData)) @@ hass_data
    /\ entries' = [entries EXCEPT ![e].state = "loaded"]
    /\ flow' = [type |-> "setup", entry_id |-> e, result |-> TRUE]

\* Variant: the stored data are removed whether or not the platforms
\* have unloaded
async_unload_entry_always(e, unload_ok) ==
    /\ entries[e].state = "loaded"
    /\ IF e \in DOMAIN DomainData
       THEN hass_data' = (Domain :> [x \in (DOMAIN DomainData) \ {e} |-> DomainData[x]])
                            @@ hass_data
       ELSE UNCHANGED hass_data
    /\ entries' = [entries EXCEPT
                     ![e].state = IF unload_ok THEN "not_loaded" ELSE "failed_unload"]
    /\ flow' = [type |-> "unload", entry_id |-> e, result |-> unload_ok]

\* __init__.async_unload_entry of a loaded entry; unload_ok is what
\* async_unload_platforms returned
async_unload_entry(e, unload_ok) ==
    /\ entries[e].state = "loaded"
    /\ IF unload_ok /\ e \in DOMAIN DomainData
       THEN hass_data' = (Domain :> [x \in (DOMAIN DomainData) \ {e} |-> DomainData[x]])
                            @@ hass_data
       ELSE UNCHANGED hass_data
    /\ entries' = [entries EXCEPT
                     ![e].state = IF unload_ok THEN "not_loaded" ELSE "failed_unload"]
    /\ flow' = [type |-> "unload", entry_id |-> e, result |-> unload_ok]

SetupEntry == \E e \in 1..Len(entries) : async_setup_entry(e)
UnloadEntry == \E e \in 1..Len(entries), unload_ok \in BOOLEAN : async_unload_entry(e, unload_ok)

EntryNext ==
    /\ \/ ShowForm
       \/ SubmitForm
       \/ SetupEntry
       \/ UnloadEntry
    /\ UNCHANGED <<pollVars, call, setup>>

EntrySpec == Init /\ [][EntryNext]_vars

----------------------------------------------------------------------------
(* C17: a submission of the user step with a site ID that is configured    *)
(* already aborts and creates no entry; so after any sequence of           *)
(* submissions there is at most one entry per site ID, and every entry     *)
(* created has the unique ID str(site_id) and the submitted input as data. *)

Submitted == flow'.type \in {"abort", "create_entry"} /\ flow' # flow

SiteConfigured(site_id) ==
    \E e \in 1..Len(entries) : entries[e].data.site_id = site_id

C17_OneEntryPerSite ==
    [][/\ Submitted =>
            IF SiteConfigured(flow'.user_input.site_id)
            THEN flow'.type = "abort" /\ entries' = entries
            ELSE /\ flow'.type = "create_entry"
                 /\ Len(entries') = Len(entries) + 1
                 /\ \A e \in 1..Len(entries) : entries'[e] = entries[e]
                 /\ entries'[Len(entries')].unique_id = flow'.user_input.site_id
                 /\ entries'[Len(entries')].data = flow'.user_input
       /\ \A e, f \in 1..Len(entries') :
             e # f => /\ entries'[e].unique_id # entries'[f].unique_id
                      /\ entries'[e].data.site_id # entries'[f].data.site_id]_vars

\* A submission has been aborted while two sites are configured
C17_Witness ==
    /\ flow.type = "abort"
    /\ Len(entries) = 2
    /\ \E e \in 1..Len(entries) :
          /\ entries[e].unique_id = flow.user_input.site_id
          /\ entries[e].data # flow.user_input

----------------------------------------------------------------------------
(* C18: after async_setup_entry hass.data[DOMAIN][entry_id] is entry.data; *)
(* after async_unload_entry has returned True that key is absent; when the *)
(* platforms do not unload it returns False and leaves the stored data as  *)
(* they were; the data of other entries are never touched.                 *)

StoredData(hd, e) ==
    IF Domain \in DOMAIN hd /\ e \in DOMAIN hd[Domain]
    THEN <<hd[Domain][e]>> ELSE <<>>

Ran(type) == flow'.type = type /\ <<flow', entries'>> # <<flow, entries>>

C18_EntryData ==
    [][/\ Ran("setup") =>
            /\ StoredData(hass_data', flow'.entry_id) = <<entries[flow'.entry_id].data>>
            /\ flow'.result
       /\ (Ran("unload") /\ flow'.result) =>
            StoredData(hass_data', flow'.entry_id) = <<>>
       /\ (Ran("unload") /\ ~flow'.result) => hass_data' = hass_data
       /\ (Ran("setup") \/ Ran("unload")) =>
            \A e \in 1..Len(entries) :
               e # flow'.entry_id => StoredData(hass_data', e) = StoredData(hass_data, e)
       /\ Ran("unload") =>
            flow'.result = (entries'[flow'.entry_id].state = "not_loaded")]_vars

\* An entry has been unloaded and its data are gone, the data of another
\* entry are still stored, and a third did not unload and kept its data
C18_Witness ==
    /\ flow.type = "unload" /\ flow.result
    /\ StoredData(hass_data, flow.entry_id) = <<>>
    /\ \E e \in 1..Len(entries) :
          entries[e].state = "loaded" /\ StoredData(hass_data, e) = <<entries[e].data>>
    /\ \E e \in 1..Len(entries) :
          entries[e].state = "failed_unload" /\ StoredData(hass_data, e) = <<entries[e].data>>

----------------------------------------------------------------------------
(* The sensor platform's async_setup_entry *)

\* The instance lists the entry is configured with (the lists of the PV
\* inverters, tanks, solar chargers and grid meters are left empty)
BatteryConfigs == {<<>>, <<"1">>}
MultiConfigs == {<<>>, <<"2">>, <<"2", ",", "1">>}
Configs == [battery : BatteryConfigs, multi : MultiConfigs]

Coordinator(kind, instance) == [kind |-> kind, instance |-> instance]

\* The coordinators that are always there, in the order of all_coordinators
StaticCoordinators ==
    <<Coordinator("overall_stats", 0), Coordinator("stats", 0),
      Coordinator("system_overview", 0), Coordinator("diagnostics", 0)>>

\* dynamic_coordinators: summary, history and alarms of every battery, then
\* the status of every MultiPlus
RECURSIVE BatteryCoordinators(_)
BatteryCoordinators(ids) ==
    IF ids = <<>> THEN <<>>
    ELSE <<Coordinator("battery_summary", Head(ids)),
           Coordinator("battery_history", Head(ids)),
           Coordinator("battery_alarm", Head(ids))>>
         \o BatteryCoordinators(Tail(ids))

RECURSIVE MultiCoordinators(_)
MultiCoordinators(ids) ==
    IF ids = <<>> THEN <<>>
    ELSE <<Coordinator("multi", Head(ids))>> \o MultiCoordinators(Tail(ids))

all_coordinators(config) ==
    StaticCoordinators
    \o BatteryCoordinators(_parse_instance_ids(config.battery))
    \o MultiCoordinators(_parse_instance_ids(config.multi))

\* What the API answers to the first GET of a coordinator
DiagnosticsBody ==
    Obj(("success" :> Bool(TRUE))
        @@ ("records" :> List(<<DiagnosticsRecord(0, 144, Num(CurrentStep))>>)))
FirstAnswers(coordinator) ==
    {HttpResponse(200, TRUE,
                  IF coordinator.kind = "diagnostics" THEN DiagnosticsBody
                  ELSE Widget("47" :> ValueFloat(Num(VoltageStep)))),
     HttpResponse(204, TRUE, StatusBody),
     HttpResponse(404, TRUE, StatusBody)}

\* DataUpdateCoordinator.async_config_entry_first_refresh, of the host: the
\* refresh keeps the UpdateFailed of _async_update_data to itself, and when
\* the refresh has failed ConfigEntryNotReady is raised
async_config_entry_first_refresh(outcome) ==
    IF outcome.kind = "return" THEN outcome ELSE Raise("ConfigEntryNotReady")

BeginSetup ==
    /\ setup = NoSetup
    /\ \E config \in Configs :
          setup' = [phase |-> "refreshing", config |-> config,
                    refreshed |-> <<>>, data |-> EmptyMap, entities |-> {}]

\* One turn of the loop over all_coordinators: `except UpdateFailed` logs
\* a warning and goes on, any other exception leaves async_setup_entry
FirstRefresh ==
    /\ setup.phase = "refreshing"
    /\ Len(setup.refreshed) < Len(all_coordinators(setup.config))
    /\ LET coordinator == all_coordinators(setup.config)[Len(setup.refreshed) + 1] IN
       \E r \in FirstAnswers(coordinator) :
          LET result == async_config_entry_first_refresh(_async_update_data(r))
              got == IF result.kind = "return" THEN result.value ELSE None
          IN  setup' = [setup EXCEPT
                  !.refreshed = Append(@, [coordinator |-> coordinator, data |-> got]),
                  !.data = (coordinator :> got) @@ @,
                  !.phase = IF result.kind = "raise" /\ result.exc # "UpdateFailed"
                            THEN "aborted" ELSE @]

\* coordinator.data after the loop
DataOf(refreshed, coordinator) ==
    LET at == {i \in 1..Len(refreshed) : refreshed[i].coordinator = coordinator}
    IN  IF at = {} THEN None ELSE refreshed[Least(at)].data

Entity(sensor, device_kind, instance) ==
    [sensor |-> sensor, device |-> <<device_kind, instance>>]

\* battery_sensors_config, by key: the attribute ID of three of the sensors
\* that read the summary coordinator
battery_sensors_config ==
    ("soc" :> "51") @@ ("voltage" :> "47") @@ ("current" :> "49")

\* `coord.data and coord.data.get("data")` and then `data_id in actual_data`
\* (the snapshots of this specification are None or a dict)
InActualData(snapshot, data_id) ==
    /\ Truthy(snapshot)
    /\ Truthy(DictGet(snapshot, "data", None))
    /\ Contains(data_id, DictGet(snapshot, "data", EmptyDict))

\* The entities of the batteries and the System State of Charge sensor, as
\* async_setup_entry appends them
Entities(config, refreshed) ==
    LET battery_instance_ids == _parse_instance_ids(config.battery)
        multi_instance_ids == _parse_instance_ids(config.multi)
        diagnostics == DataOf(refreshed, Coordinator("diagnostics", 0))
    IN  {Entity(key, "battery", battery_instance_ids[i]) :
            <<i, key>> \in {ik \in (1..Len(battery_instance_ids))
                                        \X DOMAIN battery_sensors_config :
                      InActualData(DataOf(refreshed,
                                          Coordinator("battery_summary",
                                                      battery_instance_ids[ik[1]])),
                                   battery_sensors_config[ik[2]])}}
        \cup
        {Entity("Battery Power", "battery", battery_instance_ids[i]) :
            i \in {k \in 1..Len(battery_instance_ids) :
                      Truthy(DataOf(refreshed,
                                    Coordinator("battery_summary", battery_instance_ids[k])))}}
        \cup (IF battery_instance_ids # <<>>
              THEN {Entity("Batteries Power Total", "overall", 0)} ELSE {})
        \cup (IF Truthy(diagnostics) /\ multi_instance_ids # <<>>
              THEN {Entity("System State of Charge", "multi", multi_instance_ids[1])}
              ELSE {})

\* The loop is over: the entities are made and handed to async_add_entities
AddEntities ==
    /\ setup.phase = "refreshing"
    /\ Len(setup.refreshed) = Len(all_coordinators(setup.config))
    /\ setup' = [setup EXCEPT !.phase = "done",
                              !.entities = Entities(setup.config, setup.refreshed)]

\* What the API answers to a later GET: as before, or a summary in which
\* the current has come in addition to the voltage
LaterAnswers(coordinator) ==
    FirstAnswers(coordinator)
    \cup (IF coordinator.kind = "battery_summary"
          THEN {HttpResponse(200, TRUE,
                             Widget(("47" :> ValueFloat(Num(VoltageStep)))
                                    @@ ("49" :> ValueFloat(Num(CurrentStep)))))}
          ELSE {})

\* The coordinators whose snapshot decides about an entity above
Deciding(config) ==
    {c \in {all_coordinators(config)[i] : i \in 1..Len(all_coordinators(config))} :
        c.kind \in {"battery_summary", "diagnostics"}}

\* As LaterPoll, with the entities made again from the snapshots of now
LaterPollAdding(coordinator) ==
    /\ setup.phase = "done"
    /\ coordinator \in Deciding(setup.config)
    /\ \E r \in LaterAnswers(coordinator) :
          LET now == [setup.data EXCEPT
                         ![coordinator] = Refreshed(@, _async_update_data(r))]
          IN  setup' = [setup EXCEPT
                  !.data = now,
                  !.entities =
                      Entities(setup.config,
                               [i \in 1..Len(setup.refreshed) |->
                                   [coordinator |-> setup.refreshed[i].coordinator,
                                    data |-> now[setup.refreshed[i].coordinator]]])]

\* A scheduled refresh of a coordinator after the setup: it replaces or
\* keeps coordinator.data, and the listeners write their state; nothing in
\* it goes back to async_add_entities
LaterPoll(coordinator) ==
    /\ setup.phase = "done"
    /\ coordinator \in Deciding(setup.config)
    /\ \E r \in LaterAnswers(coordinator) :
          setup' = [setup EXCEPT
              !.data[coordinator] = Refreshed(@, _async_update_data(r))]

SetupNext ==
    /\ \/ BeginSetup
       \/ FirstRefresh
       \/ AddEntities
       \/ \E kind \in {"battery_summary", "diagnostics"}, instance \in 0..MaxBatteries :
             LaterPoll(Coordinator(kind, instance))
    /\ UNCHANGED <<pollVars, call, entries, hass_data, flow>>

SetupSpec == Init /\ [][SetupNext]_vars

----------------------------------------------------------------------------
(* C19: the initial refresh is attempted for every coordinator, the four   *)
(* static ones first and then the ones per instance, one at a time in list *)
(* order; the failure of one coordinator's initial refresh prevents        *)
(* neither the attempts for the coordinators after it nor the creation of  *)
(* the entities of the coordinators that did get data.                     *)

SetupEnded == setup.phase \in {"done", "aborted"}

C19_Original ==
    SetupEnded =>
        LET coordinators == all_coordinators(setup.config) IN
        /\ Len(setup.refreshed) = Len(coordinators)
        /\ \A i \in 1..Len(setup.refreshed) :
              /\ setup.refreshed[i].coordinator = coordinators[i]
              /\ (coordinators[i].kind = "battery_summary" /\ Truthy(setup.refreshed[i].data))
                    => Entity("Battery Power", "battery", coordinators[i].instance)
                          \in setup.entities

----------------------------------------------------------------------------
(* C20: the "System State of Charge" sensor is attached to the first       *)
(* MultiPlus instance the user configured, and it is created exactly when  *)
(* the diagnostics coordinator has data and at least one MultiPlus         *)
(* instance ID is configured.                                              *)

\* The MultiPlus instance IDs in the order the user configured them
ConfiguredMultis == _parse_instance_ids_unsorted(setup.config.multi)

C20_Original ==
    setup.phase = "done" =>
        LET soc == {e \in setup.entities : e.sensor = "System State of Charge"} IN
        /\ soc # {} <=> /\ Truthy(DataOf(setup.refreshed, Coordinator("diagnostics", 0)))
                        /\ ConfiguredMultis # <<>>
        /\ \A e \in soc : e.device = <<"multi", ConfiguredMultis[1]>>

----------------------------------------------------------------------------
(* C21: VrmOverallStatsSensor with path p returns None when the snapshot   *)
(* is empty; otherwise it follows p key by key and returns the value found *)
(* when it is a number (a JSON boolean is an int to Python and counts as   *)
(* one), its numeric conversion when it is a string, None when it is of    *)
(* another type, and 0.0 when a key of p is missing or the string is not   *)
(* numeric.  It never raises.                                              *)

\* The value at the end of the first n keys of p, as <<value>>, or <<>>
\* when one of these keys is missing
RECURSIVE AtPath(_, _, _)
AtPath(snapshot, p, n) ==
    IF n = 0 THEN <<snapshot>>
    ELSE LET above == AtPath(snapshot, p, n - 1) IN
         IF above # <<>> /\ HasKey(above[1], p[n])
         THEN <<above[1].m[p[n]]>> ELSE <<>>

C21_PathExtraction ==
    Called("VrmOverallStatsSensor") =>
        LET at == AtPath(call.snapshot, call.data_path, Len(call.data_path)) IN
        /\ call.result.kind = "return"
        /\ call.result.value =
              IF ~Truthy(call.snapshot) THEN None
              ELSE IF at = <<>> THEN Num(0)
              ELSE IF at[1].t \in {"num", "bool"} THEN at[1]
              ELSE IF at[1] = Str("0.29") THEN Num(29)
              ELSE IF at[1].t = "str" THEN Num(0)
              ELSE None

\* Read: a snapshot in which "totals" is no dict, so that the last key of
\* the path is missing, and the sensor reports 0.0
C21_Witness ==
    /\ Called("VrmOverallStatsSensor")
    /\ AtPath(call.snapshot, call.data_path, Len(call.data_path) - 1) # <<>>
    /\ AtPath(call.snapshot, call.data_path, Len(call.data_path) - 1)[1].t = "list"
    /\ call.result = Return(Num(0))

----------------------------------------------------------------------------
(* C22: the set of sensor entities is fixed at setup from the initial      *)
(* snapshots: a per-attribute sensor exists only if its attribute ID was   *)
(* present in the snapshot obtained by the initial refresh, and no later   *)
(* poll, successful or not, adds or removes an entity; an attribute that   *)
(* first appears in a later successful poll is never exposed.              *)

PerAttribute(e) == e.sensor \in DOMAIN battery_sensors_config

\* The attribute is in the "data" of the snapshot
Present(snapshot, id) ==
    HasKey(snapshot, "data") /\ HasKey(snapshot.m["data"], id)

\* The snapshot the initial refresh of the summary coordinator of the
\* entity's battery obtained, in state s of the setup
InitialSnapshot(s, e) ==
    LET at == {i \in 1..Len(s.refreshed) :
                  s.refreshed[i].coordinator = Coordinator("battery_summary", e.device[2])}
    IN  IF at = {} THEN None ELSE s.refreshed[CHOOSE i \in at : TRUE].data

C22_EntitiesFixed ==
    [][/\ setup'.phase # "done" => setup'.entities = {}
       /\ setup'.phase = "done" =>
             \A e \in setup'.entities :
                PerAttribute(e) =>
                   Present(InitialSnapshot(setup', e), battery_sensors_config[e.sensor])
       /\ setup.phase = "done" =>
             /\ setup'.entities = setup.entities
             /\ setup'.refreshed = setup.refreshed]_vars

\* After the setup a poll has brought the current of a battery of which the
\* initial snapshot had the voltage only: the voltage has its sensor, the
\* current has none
C22_Witness ==
    /\ setup.phase = "done"
    /\ \E e \in setup.entities :
          /\ e.sensor = "voltage"
          /\ LET c == Coordinator("battery_summary", e.device[2]) IN
             /\ Present(setup.data[c], "49")
             /\ ~Present(InitialSnapshot(setup, e), "49")
             /\ Entity("current", "battery", e.device[2]) \notin setup.entities

----------------------------------------------------------------------------
(* C23: a 204 response is a successful poll with no data: the snapshot of  *)
(* the coordinator becomes None and the previous snapshot is not retained; *)
(* from then until the next 200 poll every plain extraction sensor on that *)
(* coordinator reports None and every derived power sensor on it reports   *)
(* 0.0.                                                                    *)

NoContent(r) == IsHttp(r) /\ r.status = 204
Answered200(r) == IsHttp(r) /\ r.status = 200

\* The sensors of coordinator c after a step: the state the power sensors
\* wrote when they last read the snapshot, and what the summary sensors
\* (plain extraction) read from it
PowerSensorsReport(c, v) ==
    \A s \in Sensors :
       (SensorCoordinator(s) = c /\ sensor_value'[s] # Unread) => sensor_value'[s] = Return(v)
ExtractionSensorsReport(c, v) ==
    \A data_id \in SummaryDataIds : SummaryNativeValue(data'[c], data_id) = Return(v)

C23_NoContent ==
    [][\A c \in Coordinators :
         /\ (Completed(c) /\ NoContent(last_poll'.resp)) =>
               /\ last_poll'.outcome = Return(None)
               /\ data'[c] = None
               /\ \A s \in Sensors :
                     SensorCoordinator(s) = c => sensor_value'[s] = Return(Num(0))
         /\ (data[c] = None /\ ~(Completed(c) /\ Answered200(last_poll'.resp))) =>
               data'[c] = None
         /\ data'[c] = None =>
               /\ PowerSensorsReport(c, Num(0))
               /\ ExtractionSensorsReport(c, None)]_vars

\* A poll answered 204 has ended: the snapshot is None, the power sensor of
\* the coordinator reports 0.0 and its voltage sensor None
C23_Witness ==
    /\ Polled
    /\ NoContent(last_poll.resp)
    /\ data[last_poll.coord] = None
    /\ \E s \in Sensors :
          SensorCoordinator(s) = last_poll.coord /\ sensor_value[s] = Return(Num(0))
    /\ SummaryNativeValue(data[last_poll.coord], "47") = Return(None)

====
